---- MODULE Spec2Model ----
(***************************************************************************)
(* Share-key codec (utils/codec.ts, V2 with field minification), the       *)
(* legacy V1 encoder, and the JSON importer's normalizer.                  *)
(*                                                                         *)
(* JavaScript values are modelled as follows.  An object is a record whose *)
(* domain is the set of properties that are defined: a property that is    *)
(* absent and a property whose value is `undefined' are the same thing     *)
(* (JSON.stringify drops both, deep equality does not tell them apart).    *)
(* Values found where the code inspects the run-time type are tagged:      *)
(* Str(s) a string, Num(n) a number, Arr(s) an array, JsNull null.         *)
(* Fields the code only copies (id, title, text, points, ...) hold plain   *)
(* strings and integers.                                                   *)
(***************************************************************************)
EXTENDS Integers, Sequences, FiniteSets, TLC

VARIABLES quiz, minified, encPc, encStream, encError, encResult,
          key, keyOrigin, isV2, decPc, decStream, decResult,
          jsonText, importPc, importError, imported,
          quizzes, isImporting, inFlight, dialog,
          calls, chunkStore,
          takerQuiz, answers, grades, isSubmitted,
          showShareModal, generatedKey, shareCalls,
          editorQuestions

vars == <<quiz, minified, encPc, encStream, encError, encResult,
          key, keyOrigin, isV2, decPc, decStream, decResult,
          jsonText, importPc, importError, imported,
          quizzes, isImporting, inFlight, dialog,
          calls, chunkStore,
          takerQuiz, answers, grades, isSubmitted,
          showShareModal, generatedKey, shareCalls,
          editorQuestions>>

codecVars == <<quiz, minified, encPc, encStream, encError, encResult,
               key, keyOrigin, isV2, decPc, decStream, decResult>>
encVars == <<minified, encPc, encStream, encError, encResult>>
decVars == <<key, keyOrigin, isV2, decPc, decStream, decResult>>
importVars == <<jsonText, importPc, importError, imported>>
libVars == <<quizzes, isImporting, inFlight, dialog>>
concVars == <<calls, chunkStore>>
gradeVars == <<takerQuiz, answers, grades, isSubmitted>>
shareVars == <<showShareModal, generatedKey, shareCalls>>
editorVars == <<editorQuestions>>
uiVars == <<shareVars, editorVars>>
appVars == <<libVars, concVars, gradeVars, uiVars>>

(***************************************************************************)
(* Bounds of the inputs.                                                   *)
(***************************************************************************)
MaxOptions == 2
MaxAnswers == 2
MaxQuestions == 2

(***************************************************************************)
(* JavaScript values.                                                      *)
(***************************************************************************)
Str(s) == [str |-> s]
Num(n) == [num |-> n]
Arr(s) == [arr |-> s]
JsNull == [null |-> TRUE]
Throw == [throw |-> TRUE]
Undefined == [undefined |-> TRUE]

IsString(v) == "str" \in DOMAIN v
IsNumber(v) == "num" \in DOMAIN v
IsArray(v) == "arr" \in DOMAIN v
IsNull(v) == "null" \in DOMAIN v
IsThrow(v) == "throw" \in DOMAIN v
IsObject(v) == DOMAIN v \cap {"str", "num", "arr", "null", "throw", "undefined"} = {}

\* obj[f] is defined (not undefined)
Has(obj, f) == IsObject(obj) /\ f \in DOMAIN obj

Map(s, Op(_)) == [i \in 1..Len(s) |-> Op(s[i])]

SeqsUpTo(S, n) == UNION {[1..k -> S] : k \in 0..n}

Range(s) == {s[i] : i \in 1..Len(s)}

Digit == <<"0", "1", "2", "3", "4", "5", "6", "7", "8", "9">>

RECURSIVE NatToString(_)
NatToString(n) ==
  IF n < 10 THEN Digit[n + 1] ELSE NatToString(n \div 10) \o Digit[(n % 10) + 1]

\* Number.prototype.toString for an integer
NumberToString(n) == IF n < 0 THEN "-" \o NatToString(0 - n) ELSE NatToString(n)

\* String(v) for a string or a number
String(v) == IF IsString(v) THEN v.str ELSE NumberToString(v.num)

\* (v + 1).toString(): numeric addition for a number, concatenation for a string
PlusOneToString(v) ==
  IF IsNumber(v) THEN NumberToString(v.num + 1) ELSE v.str \o "1"

(***************************************************************************)
(* Minification tables.                                                    *)
(***************************************************************************)
KEY_MAP ==
  [id |-> "i", title |-> "t", description |-> "d", createdAt |-> "c",
   questions |-> "q", type |-> "ty", text |-> "tx", options |-> "o",
   correctAnswers |-> "ca", subjectiveReference |-> "sr",
   explanation |-> "ex", points |-> "p"]

TYPE_MAP ==
  [SINGLE_CHOICE |-> 0, MULTIPLE_CHOICE |-> 1, FILL_IN_THE_BLANK |-> 2,
   TRUE_FALSE |-> 3, SUBJECTIVE |-> 4]

REV_TYPE_MAP ==
  [n \in {TYPE_MAP[k] : k \in DOMAIN TYPE_MAP} |->
     CHOOSE k \in DOMAIN TYPE_MAP : TYPE_MAP[k] = n]

QuestionTypes == DOMAIN TYPE_MAP

isChoiceType(type) == type \in {"SINGLE_CHOICE", "MULTIPLE_CHOICE"}

\* the full field names whose short code is in ks
FullNames(ks) == {f \in DOMAIN KEY_MAP : KEY_MAP[f] \in ks}
FullName(k) == CHOOSE f \in DOMAIN KEY_MAP : KEY_MAP[f] = k

(***************************************************************************)
(* toMinified                                                              *)
(***************************************************************************)
NotMinusOne(i) == i # -1

\* q.options?.findIndex(o => o.id === ansId) ?? -1
findIndex(q, ansId) ==
  IF ~Has(q, "options") THEN -1
  ELSE LET opts == q.options.arr
           hits == {i \in 1..Len(opts) : IsString(ansId) /\ opts[i].id = ansId.str}
       IN IF hits = {} THEN -1
          ELSE (CHOOSE i \in hits : \A j \in hits : i <= j) - 1

minifyChoiceAnswersUnfiltered(q) ==
  Arr(Map([k \in 1..Len(q.correctAnswers.arr) |->
             findIndex(q, q.correctAnswers.arr[k])], Num))

\* correctAnswers of a choice question: indices of the options, unresolved dropped
minifyChoiceAnswers(q) ==
  Arr(Map(SelectSeq([k \in 1..Len(q.correctAnswers.arr) |->
                       findIndex(q, q.correctAnswers.arr[k])], NotMinusOne), Num))

minifyOptionId(o) == Str(o.id)

minifyOptionText(o) == Str(o.text)

minifyOptionRecord(o) == [i |-> o.id, tx |-> o.text]

minifyOptionsExplicit(q, isChoice) == Arr(Map(q.options.arr, minifyOptionRecord))

\* options: plain texts for a choice question, {i, tx} records otherwise
minifyOptions(q, isChoice) ==
  IF isChoice THEN Arr(Map(q.options.arr, minifyOptionText))
  ELSE Arr(Map(q.options.arr, minifyOptionRecord))

minifyIsChoice(q) == Has(q, "type") /\ isChoiceType(q.type)

\* q.correctAnswers.map of a choice question throws a TypeError
minifyQuestionThrows(q) ==
  minifyIsChoice(q) /\ (~Has(q, "correctAnswers") \/ ~IsArray(q.correctAnswers))

minifyQuestion(q) ==
  LET isChoice == minifyIsChoice(q)
      present ==
        {f \in {"id", "text", "points", "options", "correctAnswers",
                "subjectiveReference", "explanation"} : Has(q, f)}
        \cup (IF Has(q, "type") /\ q.type \in DOMAIN TYPE_MAP THEN {"type"} ELSE {})
        \cup (IF isChoice THEN {"correctAnswers"} ELSE {})
  IN [k \in {KEY_MAP[f] : f \in present} |->
        LET f == FullName(k)
        IN CASE f = "type" -> TYPE_MAP[q.type]
             [] f = "options" -> minifyOptions(q, isChoice)
             [] f = "correctAnswers" ->
                  IF isChoice THEN minifyChoiceAnswers(q) ELSE q.correctAnswers
             [] OTHER -> q[f]]

\* quiz.questions.map throws a TypeError
toMinifiedThrows(qz) ==
  \/ ~Has(qz, "questions")
  \/ ~IsArray(qz.questions)
  \/ \E i \in 1..Len(qz.questions.arr) : minifyQuestionThrows(qz.questions.arr[i])

toMinified(qz) ==
  IF toMinifiedThrows(qz) THEN Throw
  ELSE LET present == {f \in {"id", "title", "description", "createdAt", "questions"} :
                         Has(qz, f)}
       IN [k \in {KEY_MAP[f] : f \in present} |->
             LET f == FullName(k)
             IN IF f = "questions" THEN Arr(Map(qz.questions.arr, minifyQuestion))
                ELSE qz[f]]

(***************************************************************************)
(* fromMinified                                                            *)
(***************************************************************************)
\* o[k] || ''
optionField(o, k) == IF Has(o, k) THEN o[k] ELSE ""

StringOf(v) == Str(String(v))
PlusOneStringOf(v) == Str(PlusOneToString(v))

compactOptionIdZeroBased(idx) == NumberToString(idx)

\* (idx + 1).toString() for the 0-based position idx of an option
compactOptionId(idx) == NumberToString(idx + 1)

unminifyOptionRecord(o) == [id |-> optionField(o, "i"), text |-> optionField(o, "tx")]

unminifyType(q) == IF Has(q, "ty") /\ q.ty \in DOMAIN REV_TYPE_MAP THEN {"type"} ELSE {}

unminifyIsChoice(q) == unminifyType(q) # {} /\ isChoiceType(REV_TYPE_MAP[q.ty])

\* isChoice && Array.isArray(rawOptions)
unminifyChoiceBranch(q) == unminifyIsChoice(q) /\ Has(q, "o") /\ IsArray(q.o)

\* rawOptions.length > 0 && typeof rawOptions[0] === 'string'
unminifyIsCompact(q) == Len(q.o.arr) > 0 /\ IsString(q.o.arr[1])

\* else if (rawOptions): a defined value that is not falsy
unminifyFallbackBranch(q) ==
  /\ ~unminifyChoiceBranch(q)
  /\ Has(q, "o") /\ ~IsNull(q.o) /\ q.o # Str("") /\ q.o # Num(0)

\* rawAnswers.map or rawOptions.map on something that is not an array
unminifyQuestionThrows(q) ==
  \/ unminifyChoiceBranch(q) /\ (~Has(q, "ca") \/ ~IsArray(q.ca))
  \/ unminifyFallbackBranch(q) /\ ~IsArray(q.o)

unminifyOptions(q) ==
  IF unminifyChoiceBranch(q) /\ unminifyIsCompact(q)
  THEN Arr([idx \in 1..Len(q.o.arr) |->
              [id |-> compactOptionId(idx - 1), text |-> q.o.arr[idx].str]])
  ELSE Arr(Map(q.o.arr, unminifyOptionRecord))

unminifyAnswersAsWritten(q) ==
  IF Has(q, "ca") /\ IsArray(q.ca) THEN Arr(Map(q.ca.arr, StringOf)) ELSE Arr(<<>>)

unminifyAnswers(q) ==
  IF unminifyChoiceBranch(q)
  THEN IF unminifyIsCompact(q) THEN Arr(Map(q.ca.arr, PlusOneStringOf))
       ELSE Arr(Map(q.ca.arr, StringOf))
  ELSE IF Has(q, "ca") /\ IsArray(q.ca) THEN Arr(Map(q.ca.arr, StringOf))
       ELSE Arr(<<>>)

unminifyQuestion(q) ==
  LET copied == FullNames({k \in {"i", "tx", "p", "sr", "ex"} : Has(q, k)})
      present ==
        copied \cup unminifyType(q) \cup {"correctAnswers"}
        \cup (IF unminifyChoiceBranch(q) \/ unminifyFallbackBranch(q)
              THEN {"options"} ELSE {})
  IN [f \in present |->
        CASE f = "type" -> REV_TYPE_MAP[q.ty]
          [] f = "options" -> unminifyOptions(q)
          [] f = "correctAnswers" -> unminifyAnswers(q)
          [] OTHER -> q[KEY_MAP[f]]]

\* min[KEY_MAP.id] on null, or (min.q as any[]).map on a non-array
fromMinifiedThrows(min) ==
  \/ ~IsObject(min)
  \/ ~Has(min, "q")
  \/ ~IsArray(min.q)
  \/ \E i \in 1..Len(min.q.arr) : unminifyQuestionThrows(min.q.arr[i])

fromMinifiedFreshId(min) ==
  IF fromMinifiedThrows(min) THEN Throw
  ELSE LET present == FullNames({k \in {"i", "t", "d", "c", "q"} : Has(min, k)}) \cup {"id"}
       IN [f \in present |->
             IF f = "questions" THEN Arr(Map(min.q.arr, unminifyQuestion))
             ELSE IF f = "id" /\ ~Has(min, "i") THEN "r1"
             ELSE min[KEY_MAP[f]]]

fromMinified(min) ==
  IF fromMinifiedThrows(min) THEN Throw
  ELSE LET present == FullNames({k \in {"i", "t", "d", "c", "q"} : Has(min, k)})
       IN [f \in present |->
             IF f = "questions" THEN Arr(Map(min.q.arr, unminifyQuestion))
             ELSE min[KEY_MAP[f]]]

(***************************************************************************)
(* Byte codec.  A text is [json |-> v] (the JSON text of v) or a text that *)
(* is not JSON; bytes are a sequence of blocks; a zlib stream is a header  *)
(* block followed by the deflated data; a Base64 text is [b64 |-> bytes].  *)
(* A key is its "v2." prefix (or none) and the text after it.              *)
(***************************************************************************)
JSONstringify(v) == [json |-> v]
NotJsonText == [notJson |-> TRUE]
JSONparse(text) == IF "json" \in DOMAIN text THEN text.json ELSE Throw

Bytes(blocks) == [bytes |-> blocks]
Stream(chunks) == [chunks |-> chunks]

TextEncode(text) == Bytes(<<[utf8 |-> text]>>)
\* bytes that are not the encoding of a text decode to a text that is not JSON
TextDecode(buf) ==
  IF Len(buf.bytes) = 1 /\ "utf8" \in DOMAIN buf.bytes[1] THEN buf.bytes[1].utf8
  ELSE NotJsonText

ZlibHeader == [zlibHeader |-> TRUE]
CorruptBytes == Bytes(<<[junk |-> TRUE]>>)

\* the chunks a CompressionStream('deflate') delivers for the given input
CompressionStream(buf) == Stream(<< <<ZlibHeader>>, <<[deflate |-> buf]>> >>)

IsZlib(buf) ==
  /\ Len(buf.bytes) = 2
  /\ buf.bytes[1] = ZlibHeader
  /\ "deflate" \in DOMAIN buf.bytes[2]

\* the chunks a DecompressionStream('deflate') delivers, or the error it
\* raises; no output, no chunk
DecompressionStream(buf) ==
  IF ~IsZlib(buf) THEN Throw
  ELSE IF buf.bytes[2].deflate.bytes = <<>> THEN Stream(<<>>)
  ELSE Stream(<<buf.bytes[2].deflate.bytes>>)

RECURSIVE Concat(_)
Concat(chunks) ==
  IF chunks = <<>> THEN <<>> ELSE Head(chunks) \o Concat(Tail(chunks))

\* drains the stream into one contiguous buffer
consumeStream(stream) == Bytes(Concat(stream.chunks))

uint8ArrayToBase64(bytes) == [b64 |-> bytes]
InvalidBase64 == [invalidBase64 |-> TRUE]
base64ToUint8Array(text) == IF "b64" \in DOMAIN text THEN text.b64 ELSE Throw

EmptyString == [prefix |-> "", rest |-> [b64 |-> Bytes(<<>>)]]

V1Key(text) == [prefix |-> "", rest |-> text]

V2KeyNoPrefix(text) == [prefix |-> "", rest |-> text]

\* 'v2.' + text
V2Key(text) == [prefix |-> "v2.", rest |-> text]

\* key.startsWith('v2.')
startsWithV2(k) == k.prefix = "v2."

(***************************************************************************)
(* Promises returned by the async functions.                               *)
(***************************************************************************)
Pending == [state |-> "pending"]
Fulfilled(v) == [state |-> "fulfilled", value |-> v]
Rejected == [state |-> "rejected"]

encodeRethrow(r) == IF IsThrow(r) THEN Rejected ELSE Fulfilled(r)

\* try { ... return key } catch (e) { return '' }
encodeCatch(r) == IF IsThrow(r) THEN Fulfilled(EmptyString) ELSE Fulfilled(r)

decodeRethrow(r) == IF IsThrow(r) THEN Rejected ELSE Fulfilled(r)

\* try { ... return quiz } catch (e) { return null }
decodeCatch(r) == IF IsThrow(r) THEN Fulfilled(JsNull) ELSE Fulfilled(r)

decodeAlwaysUnminify(v2, parsed) == fromMinified(parsed)

\* if (isV2) return fromMinified(parsed); return parsed as QuizSet
decodeDispatch(v2, parsed) == IF v2 THEN fromMinified(parsed) ELSE parsed

\* the earlier encoder: Base64(deflate(UTF-8(JSON(quiz)))), no prefix
encodeQuizKeyV1(qz) ==
  V1Key(uint8ArrayToBase64(consumeStream(CompressionStream(TextEncode(JSONstringify(qz))))))

(***************************************************************************)
(* Inputs.                                                                 *)
(***************************************************************************)
Texts == {"A", "B"}

Options ==
  {[id |-> "1", text |-> "A"], [id |-> "2", text |-> "B"], [id |-> "x", text |-> "A"]}

AnswerIds == {"1", "x"}

WithField(obj, f, v) == IF v = Undefined THEN obj ELSE obj @@ (f :> v)

OptionChoices == {Undefined} \cup {Arr(s) : s \in SeqsUpTo(Options, MaxOptions)}

AnswerChoices == {Arr(s) : s \in SeqsUpTo({Str(a) : a \in AnswerIds}, MaxAnswers)}

\* choice, fill-in and subjective questions, with and without options, with
\* resolvable, dangling and repeated answers, with positional and other
\* option ids; PlainQuestions has the true/false one
RichQuestions ==
  {WithField([id |-> "qa", type |-> ty, text |-> "What?", points |-> 5,
              correctAnswers |-> ca], "options", os) :
     ty \in QuestionTypes \ {"TRUE_FALSE"}, os \in OptionChoices, ca \in AnswerChoices}

PlainQuestions ==
  {[id |-> "qt", type |-> "TRUE_FALSE", text |-> "The sky is blue", points |-> 1,
    correctAnswers |-> Arr(<<Str("true")>>), explanation |-> "Rayleigh",
    subjectiveReference |-> "Because"]}

\* sequences of questions with at most one question outside PlainQuestions
QuestionSeqs ==
  SeqsUpTo(PlainQuestions, MaxQuestions)
  \cup UNION {{[i \in 1..n |-> IF i = k THEN q ELSE p[i]] :
                 q \in RichQuestions, k \in 1..n, p \in [1..n -> PlainQuestions]} :
              n \in 1..MaxQuestions}

QuizMeta == [id |-> "k1", title |-> "Capitals", description |-> "demo", createdAt |-> 1700]

\* a quiz object that carries fields the schema does not know
UnknownFieldsQuiz ==
  [id |-> "k1", title |-> "Capitals", description |-> "demo", createdAt |-> 1700,
   author |-> "me",
   questions |->
     Arr(<<[id |-> "qa", type |-> "MULTIPLE_CHOICE", text |-> "What?", points |-> 5,
            hint |-> "think",
            options |-> Arr(<<[id |-> "x", text |-> "A"], [id |-> "2", text |-> "B"]>>),
            correctAnswers |-> Arr(<<Str("2"), Str("x")>>)]>>)]

QuizInputs ==
  {QuizMeta @@ ("questions" :> Arr(s)) : s \in QuestionSeqs}
  \cup {QuizMeta, [title |-> "X", questions |-> Arr(<<>>)], UnknownFieldsQuiz}

(***************************************************************************)
(* encodeQuizKey                                                           *)
(***************************************************************************)
ImportIdle ==
  /\ jsonText = NotJsonText
  /\ importPc = "closed"
  /\ importError = FALSE
  /\ imported = Undefined

EncodeIdle ==
  /\ minified = Undefined
  /\ encPc = "idle"
  /\ encStream = Stream(<<>>)
  /\ encError = "none"
  /\ encResult = Pending

DecodeIdle ==
  /\ isV2 = FALSE
  /\ decPc = "idle"
  /\ decStream = Bytes(<<>>)
  /\ decResult = Pending

\* the two ways a key reaches performImport
Origins == {"paste", "qr"}

\* useState([]), useState(false), no performImport awaiting, the dialog closed
LibraryIdle ==
  /\ quizzes = <<>>
  /\ isImporting = FALSE
  /\ inFlight = [o \in Origins |-> [pc |-> "idle"]]
  /\ dialog = [isOpen |-> FALSE, title |-> "", type |-> "info"]

\* no call of the codec under way
ConcurrentIdle ==
  /\ calls = <<>>
  /\ chunkStore = <<>>

\* no quiz being taken
TakerIdle ==
  /\ takerQuiz = JsNull
  /\ answers = <<>>
  /\ grades = <<>>
  /\ isSubmitted = FALSE

\* the share dialog closed, no key shown, no encodeQuizKey awaited
ShareIdle ==
  /\ showShareModal = JsNull
  /\ generatedKey = EmptyString
  /\ shareCalls = <<>>

\* the editor without questions
EditorIdle == editorQuestions = <<>>

UiIdle == ShareIdle /\ EditorIdle

AppIdle == LibraryIdle /\ ConcurrentIdle /\ TakerIdle /\ UiIdle

Init ==
  /\ quiz \in QuizInputs
  /\ EncodeIdle
  /\ DecodeIdle
  /\ key = EmptyString
  /\ keyOrigin = "none"
  /\ ImportIdle
  /\ AppIdle

\* the synchronous part: toMinified, JSON.stringify, TextEncoder, pipeThrough
EncodeCall ==
  /\ encPc = "idle"
  /\ LET m == toMinified(quiz)
     IN /\ minified' = m
        /\ IF IsThrow(m)
           THEN /\ encError' = "minify"
                /\ encResult' = encodeCatch(Throw)
                /\ encPc' = "done"
                /\ encStream' = encStream
           ELSE /\ encStream' = CompressionStream(TextEncode(JSONstringify(m)))
                /\ encPc' = "await"
                /\ UNCHANGED <<encError, encResult>>
  /\ UNCHANGED <<quiz, decVars, importVars, appVars>>

\* await consumeStream resumes: the buffer, or the stream's error
EncodeResume ==
  /\ encPc = "await"
  /\ \E streamOk \in BOOLEAN :
       LET r == IF streamOk THEN V2Key(uint8ArrayToBase64(consumeStream(encStream)))
                ELSE Throw
       IN /\ encResult' = encodeCatch(r)
          /\ encError' = IF streamOk THEN "none" ELSE "stream"
  /\ encPc' = "done"
  /\ UNCHANGED <<quiz, minified, encStream, decVars, importVars, appVars>>

(***************************************************************************)
(* decodeQuizKey                                                           *)
(***************************************************************************)
\* the synchronous part: prefix detection, Base64, pipeThrough
DecodeCall(k, origin) ==
  /\ decPc = "idle"
  /\ key' = k
  /\ keyOrigin' = origin
  /\ isV2' = startsWithV2(k)
  /\ LET compressedData == base64ToUint8Array(k.rest)
     IN IF IsThrow(compressedData)
        THEN /\ decResult' = decodeCatch(Throw)
             /\ decPc' = "done"
             /\ decStream' = decStream
        ELSE /\ decStream' = compressedData
             /\ decPc' = "await"
             /\ decResult' = decResult
  /\ UNCHANGED <<quiz, encVars, importVars, appVars>>

\* await consumeStream resumes: TextDecoder, JSON.parse, fromMinified
DecodeResume ==
  /\ decPc = "await"
  /\ LET chunks == DecompressionStream(decStream)
         parsed == IF IsThrow(chunks) THEN Throw
                   ELSE JSONparse(TextDecode(consumeStream(chunks)))
         r == IF IsThrow(parsed) THEN Throw ELSE decodeDispatch(isV2, parsed)
     IN decResult' = decodeCatch(r)
  /\ decPc' = "done"
  /\ UNCHANGED <<quiz, encVars, key, keyOrigin, isV2, decStream, importVars, appVars>>

\* the key that encodeQuizKey returned is handed to decodeQuizKey
DecodeShared ==
  /\ encPc = "done"
  /\ encResult # Fulfilled(EmptyString)
  /\ encResult # Rejected
  /\ DecodeCall(encResult.value, "encode")

\* a key made by the earlier encoder is handed to decodeQuizKey
DecodeLegacy == DecodeCall(encodeQuizKeyV1(quiz), "legacy")

Next == EncodeCall \/ EncodeResume \/ DecodeShared \/ DecodeLegacy \/ DecodeResume

Spec == Init /\ [][Next]_vars

(***************************************************************************)
(* Properties of the codec.                                                *)
(***************************************************************************)
QuestionsOf(qz) == qz.questions.arr

OptionIdsOf(q) == IF Has(q, "options") THEN {o.id : o \in Range(q.options.arr)} ELSE {}

\* the Data Model invariants of one question
WellFormedQuestion(q) ==
  /\ isChoiceType(q.type) =>
       /\ Has(q, "options") =>
            \A i, j \in 1..Len(q.options.arr) :
              q.options.arr[i].id = q.options.arr[j].id => i = j
       /\ \A a \in Range(q.correctAnswers.arr) : a.str \in OptionIdsOf(q)
  /\ q.type = "TRUE_FALSE" =>
       \A a \in Range(q.correctAnswers.arr) : a.str \in {"true", "false"}

WellFormedQuiz(qz) ==
  /\ Has(qz, "questions")
  /\ \A q \in Range(QuestionsOf(qz)) : WellFormedQuestion(q)

RoundTripDone == keyOrigin = "encode" /\ decPc = "done"

\* C1: for every QuizSet that satisfies the Data Model invariants, whatever
\* its option ids are, decode(encode(q)) is deep-equal to q.
C1_RoundTrip ==
  (RoundTripDone /\ WellFormedQuiz(quiz)) => decResult = Fulfilled(quiz)

EncodeSucceeded ==
  encPc = "done" /\ encResult.state = "fulfilled" /\ encResult.value # EmptyString

\* what a key carries after its prefix: Base64, inflate, UTF-8, JSON
PayloadOf(k) ==
  JSONparse(TextDecode(consumeStream(DecompressionStream(base64ToUint8Array(k.rest)))))

ShortCodes == {KEY_MAP[f] : f \in DOMAIN KEY_MAP}

\* C4: every non-empty string returned by encode begins with "v2." and
\* carries the minified (short-key) form of the quiz.
C4_AlwaysV2 ==
  EncodeSucceeded =>
    /\ startsWithV2(encResult.value)
    /\ PayloadOf(encResult.value) = minified
    /\ DOMAIN minified \subseteq ShortCodes
    /\ \A m \in Range(minified.q.arr) : DOMAIN m \subseteq ShortCodes
    /\ Len(minified.q.arr) = Len(QuestionsOf(quiz))

C4_Witness == EncodeSucceeded /\ Len(QuestionsOf(quiz)) = MaxQuestions

IsPositional(q) ==
  Has(q, "options") =>
    \A i \in 1..Len(q.options.arr) : q.options.arr[i].id = NumberToString(i)

\* C5: a prefix-less key made by the V1 encoder decodes to exactly the quiz
\* it was made from; a "v2." key is unminified and its options re-identified.
C5_BackwardCompatible ==
  /\ (keyOrigin = "legacy" /\ decPc = "done") =>
       ~isV2 /\ decResult = Fulfilled(quiz)
  /\ RoundTripDone =>
       /\ isV2
       /\ DOMAIN decResult.value \subseteq DOMAIN KEY_MAP
       /\ \A q \in Range(QuestionsOf(decResult.value)) :
            (isChoiceType(q.type) /\ Has(q, "options") /\ q.options.arr # <<>>)
              => IsPositional(q)

C5_Witness ==
  /\ keyOrigin = "legacy" /\ decPc = "done"
  /\ Has(quiz, "questions")
  /\ \E q \in Range(QuestionsOf(quiz)) : isChoiceType(q.type) /\ ~IsPositional(q)

MinOf(S) == CHOOSE i \in S : \A j \in S : i <= j

\* the positions (0-based) of the options the answers from the k-th on name,
\* in the order of the answers, nothing for an answer that names no option
RECURSIVE ResolvedFrom(_, _)
ResolvedFrom(q, k) ==
  IF k > Len(q.correctAnswers.arr) THEN <<>>
  ELSE LET hits == IF Has(q, "options")
                   THEN {i \in 1..Len(q.options.arr) :
                           q.options.arr[i].id = q.correctAnswers.arr[k].str}
                   ELSE {}
       IN (IF hits = {} THEN <<>> ELSE <<Num(MinOf(hits) - 1)>>) \o ResolvedFrom(q, k + 1)

Minified == encPc # "idle" /\ Has(quiz, "questions")

HasDangling(q) ==
  isChoiceType(q.type) /\ \E a \in Range(q.correctAnswers.arr) : a.str \notin OptionIdsOf(q)

\* C7: minifying a choice question whose correctAnswers name no option (also
\* when options is absent) does not throw, and ca holds exactly the positions
\* of the answers that resolve, in their order.
C7_DanglingGuard ==
  Minified =>
    /\ ~IsThrow(minified)
    /\ \A i \in 1..Len(QuestionsOf(quiz)) :
         isChoiceType(QuestionsOf(quiz)[i].type) =>
           minified.q.arr[i].ca = Arr(ResolvedFrom(QuestionsOf(quiz)[i], 1))

C7_Witness ==
  /\ Minified
  /\ \E i \in 1..Len(QuestionsOf(quiz)) :
       /\ HasDangling(QuestionsOf(quiz)[i])
       /\ Has(QuestionsOf(quiz)[i], "options")
       /\ Len(minified.q.arr[i].ca.arr) = 1
       /\ Len(QuestionsOf(quiz)[i].correctAnswers.arr) = 2

\* C8: a choice question is minified to its option texts and to the 0-based
\* positions of the options its answers name; any other question keeps
\* {i, tx} records and its correctAnswers.
C8_CompactScheme ==
  Minified =>
    \A i \in 1..Len(QuestionsOf(quiz)) :
      LET q == QuestionsOf(quiz)[i]
          m == minified.q.arr[i]
      IN /\ Has(q, "options") <=> "o" \in DOMAIN m
         /\ isChoiceType(q.type) =>
              /\ Has(q, "options") =>
                   m.o = Arr([k \in 1..Len(q.options.arr) |-> Str(q.options.arr[k].text)])
              /\ ~HasDangling(q) =>
                   /\ Len(m.ca.arr) = Len(q.correctAnswers.arr)
                   /\ \A k \in 1..Len(m.ca.arr) :
                        /\ m.ca.arr[k].num \in 0..(Len(q.options.arr) - 1)
                        /\ q.options.arr[m.ca.arr[k].num + 1].id = q.correctAnswers.arr[k].str
         /\ ~isChoiceType(q.type) =>
              /\ Has(q, "options") =>
                   m.o = Arr([k \in 1..Len(q.options.arr) |->
                                [i |-> q.options.arr[k].id, tx |-> q.options.arr[k].text]])
              /\ m.ca = q.correctAnswers

C8_Witness ==
  /\ Minified
  /\ \E i \in 1..Len(QuestionsOf(quiz)) :
       /\ isChoiceType(QuestionsOf(quiz)[i].type)
       /\ ~HasDangling(QuestionsOf(quiz)[i])
       /\ Num(1) \in Range(minified.q.arr[i].ca.arr)

\* C9: encode always resolves; its result is the empty string exactly when
\* an internal stage failed.
C9_EncodeNeverFails ==
  /\ encResult # Rejected
  /\ encPc = "done" =>
       /\ encResult.state = "fulfilled"
       /\ (encError # "none") <=> (encResult.value = EmptyString)

C9_Witness ==
  encPc = "done" /\ encError = "minify" /\ encResult = Fulfilled(EmptyString)

(***************************************************************************)
(* decodeQuizKey on arbitrary keys.                                        *)
(***************************************************************************)
CompactOptions(texts) == Arr(Map(texts, Str))

ExplicitOptions(texts) ==
  Arr([k \in 1..Len(texts) |-> [i |-> NumberToString(k), tx |-> texts[k]]])

PayloadOptionChoices ==
  {Undefined}
  \cup {CompactOptions(t) : t \in SeqsUpTo(Texts, MaxOptions)}
  \cup {ExplicitOptions(t) : t \in SeqsUpTo(Texts, MaxOptions)}

PayloadAnswerChoices ==
  {Undefined, Str("0")}
  \cup {Arr(a) : a \in SeqsUpTo({Num(0), Num(1), Str("0"), Str("1")}, MaxAnswers)}

PayloadQuestions ==
  {WithField(WithField([i |-> "qa", ty |-> ty, tx |-> "What?", p |-> 5], "o", o), "ca", ca) :
     ty \in DOMAIN REV_TYPE_MAP, o \in PayloadOptionChoices, ca \in PayloadAnswerChoices}

\* JSON values that are not a quiz
NonQuizJson ==
  {Num(5), Str("abc"), Arr(<<>>), JsNull, [t |-> "X"], [title |-> "X"],
   [t |-> "X", q |-> Str("abc")], [title |-> "X", questions |-> Str("abc")]}

JsonValues ==
  NonQuizJson
  \cup {[i |-> "k1", t |-> "Capitals", q |-> Arr(<<m>>)] : m \in PayloadQuestions}
  \cup {[t |-> "X", q |-> Arr(<<>>)], [q |-> Arr(<<>>)]}
  \cup {QuizMeta @@ ("questions" :> Arr(<<m>>)) : m \in PlainQuestions}

KeyTexts ==
  {InvalidBase64, uint8ArrayToBase64(CorruptBytes), uint8ArrayToBase64(Bytes(<<>>)),
   uint8ArrayToBase64(consumeStream(CompressionStream(TextEncode(NotJsonText))))}
  \cup {uint8ArrayToBase64(consumeStream(CompressionStream(TextEncode(JSONstringify(v))))) :
          v \in JsonValues}

CraftedKeys == {V2Key(t) : t \in KeyTexts} \cup {V1Key(t) : t \in KeyTexts}

InitDecode ==
  /\ quiz = QuizMeta
  /\ EncodeIdle
  /\ DecodeIdle
  /\ key \in CraftedKeys
  /\ keyOrigin = "pasted"
  /\ ImportIdle
  /\ AppIdle

\* a key that comes from outside is handed to decodeQuizKey
DecodePasted == keyOrigin = "pasted" /\ DecodeCall(key, "pasted")

NextDecode == DecodePasted \/ DecodeResume

SpecDecode == InitDecode /\ [][NextDecode]_vars

\* how far a key gets through Base64, inflate and JSON.parse
KeyStage(k) ==
  IF "b64" \notin DOMAIN k.rest THEN "base64"
  ELSE IF ~IsZlib(k.rest.b64) THEN "inflate"
  ELSE IF "json" \notin DOMAIN TextDecode(k.rest.b64.bytes[2].deflate) THEN "json"
  ELSE "parsed"

KeyJson(k) == TextDecode(k.rest.b64.bytes[2].deflate).json

DecodeDone == decPc = "done"

\* a V2 payload whose q is missing or not a sequence
BadQ(k) ==
  /\ KeyStage(k) = "parsed"
  /\ startsWithV2(k)
  /\ IsObject(KeyJson(k))
  /\ ~(Has(KeyJson(k), "q") /\ IsArray(KeyJson(k).q))

\* C2: decode never raises: its promise is never rejected, and a key that
\* fails at Base64, at inflate, at JSON.parse or inside unminification
\* resolves to null.
C2_DecodeNeverRaises ==
  /\ decResult # Rejected
  /\ DecodeDone =>
       /\ decResult.state = "fulfilled"
       /\ (KeyStage(key) # "parsed" \/ BadQ(key)) => decResult.value = JsNull

C2_Witness == DecodeDone /\ BadQ(key) /\ decResult = Fulfilled(JsNull)

\* valid JSON that is not a quiz object
NotAQuiz(k) ==
  /\ KeyStage(k) = "parsed"
  /\ LET v == KeyJson(k)
         qs == IF startsWithV2(k) THEN "q" ELSE "questions"
     IN ~IsObject(v) \/ ~(Has(v, qs) /\ IsArray(v[qs]))

\* C3: a key, with or without the "v2." prefix, whose text is valid JSON but
\* not a quiz object decodes to null.
C3_NullOrQuiz == (DecodeDone /\ NotAQuiz(key)) => decResult = Fulfilled(JsNull)

\* the single question of a V2 payload, in compact or in explicit form
IsChoicePayload(k) ==
  /\ KeyStage(k) = "parsed"
  /\ startsWithV2(k)
  /\ Has(KeyJson(k), "q") /\ IsArray(KeyJson(k).q) /\ Len(KeyJson(k).q.arr) = 1
  /\ KeyJson(k).q.arr[1].ty \in {0, 1}
  /\ Has(KeyJson(k).q.arr[1], "o") /\ Has(KeyJson(k).q.arr[1], "ca")
  /\ IsArray(KeyJson(k).q.arr[1].ca)

IsCompactForm(m) ==
  /\ \A e \in Range(m.o.arr) : IsString(e)
  /\ \A a \in Range(m.ca.arr) : IsNumber(a) /\ a.num \in 0..(Len(m.o.arr) - 1)

IsExplicitForm(m) ==
  /\ \A j \in 1..Len(m.o.arr) : Has(m.o.arr[j], "i") /\ m.o.arr[j].i = NumberToString(j)
  /\ \A a \in Range(m.ca.arr) :
       IsString(a) /\ \E j \in 1..Len(m.o.arr) : a.str = NumberToString(j)

\* the option texts and the 1-based correct positions a payload question states
TextsOf(m) == [j \in 1..Len(m.o.arr) |-> IF IsString(m.o.arr[j]) THEN m.o.arr[j].str
                                         ELSE m.o.arr[j].tx]
PositionsOf(m) ==
  [j \in 1..Len(m.ca.arr) |->
     IF IsNumber(m.ca.arr[j]) THEN m.ca.arr[j].num + 1
     ELSE CHOOSE n \in 1..Len(m.o.arr) : NumberToString(n) = m.ca.arr[j].str]

\* C6: the compact form (texts, 0-based indices) and the explicit form
\* ({i, tx} records with 1-based ids, id strings) of the same choice question
\* both decode, and to the same Question.
C6_MixedOptions ==
  (DecodeDone /\ IsChoicePayload(key)) =>
    LET m == KeyJson(key).q.arr[1]
    IN (IsCompactForm(m) \/ IsExplicitForm(m)) =>
         /\ decResult.state = "fulfilled" /\ decResult.value # JsNull
         /\ LET q == decResult.value.questions.arr[1]
            IN /\ q.options =
                    Arr([j \in 1..Len(m.o.arr) |->
                           [id |-> NumberToString(j), text |-> TextsOf(m)[j]]])
               /\ q.correctAnswers =
                    Arr([j \in 1..Len(m.ca.arr) |-> Str(NumberToString(PositionsOf(m)[j]))])
               /\ q.type = REV_TYPE_MAP[m.ty]

C6_Witness ==
  /\ DecodeDone /\ IsChoicePayload(key)
  /\ IsCompactForm(KeyJson(key).q.arr[1])
  /\ Len(KeyJson(key).q.arr[1].o.arr) = 2
  /\ KeyJson(key).q.arr[1].ca.arr = <<Num(1), Num(0)>>

(***************************************************************************)
(* JSONImporter: normalizeImportData and handleImport.                     *)
(***************************************************************************)
Falsy(v) == IsNull(v) \/ v = Str("") \/ v = Num(0)

normalizeIsChoice(q) == Has(q, "type") /\ isChoiceType(q.type)

\* options given as an array of strings get the ids "1".."n"
normalizeStringOptions(q) ==
  /\ normalizeIsChoice(q)
  /\ Has(q, "options") /\ IsArray(q.options)
  /\ Len(q.options.arr) > 0 /\ IsString(q.options.arr[1])

normalizeOptionsZeroBased(q) ==
  IF normalizeStringOptions(q)
  THEN Arr([idx \in 1..Len(q.options.arr) |->
              [id |-> NumberToString(idx - 1), text |-> q.options.arr[idx].str]])
  ELSE q.options

normalizeOptions(q) ==
  IF normalizeStringOptions(q)
  THEN Arr([idx \in 1..Len(q.options.arr) |->
              [id |-> NumberToString((idx - 1) + 1), text |-> q.options.arr[idx].str]])
  ELSE q.options

\* answers given as numbers are indices of the options
normalizeAnswers(q) ==
  IF ~Has(q, "correctAnswers") \/ Falsy(q.correctAnswers) THEN Arr(<<>>)
  ELSE IF ~IsArray(q.correctAnswers) THEN q.correctAnswers
  ELSE IF /\ normalizeIsChoice(q)
          /\ Len(q.correctAnswers.arr) > 0
          /\ IsNumber(q.correctAnswers.arr[1])
       THEN Arr(Map(q.correctAnswers.arr, PlusOneStringOf))
       ELSE Arr(Map(q.correctAnswers.arr, StringOf))

normalizeQuestionAlwaysFresh(q, freshId) ==
  [f \in (DOMAIN q \ {"options"}) \cup {"id", "correctAnswers"}
         \cup (IF Has(q, "options") THEN {"options"} ELSE {}) |->
     CASE f = "id" -> freshId
       [] f = "options" -> normalizeOptions(q)
       [] f = "correctAnswers" -> normalizeAnswers(q)
       [] OTHER -> q[f]]

\* { ...q, id: q.id || random, options, correctAnswers }
normalizeQuestion(q, freshId) ==
  [f \in (DOMAIN q \ {"options"}) \cup {"id", "correctAnswers"}
         \cup (IF Has(q, "options") THEN {"options"} ELSE {}) |->
     CASE f = "id" -> IF Has(q, "id") /\ q.id # "" THEN q.id ELSE freshId
       [] f = "options" -> normalizeOptions(q)
       [] f = "correctAnswers" -> normalizeAnswers(q)
       [] OTHER -> q[f]]

\* fresh[i] is what Math.random yields for the i-th question
normalizeImportData(raw, fresh) ==
  IF ~Has(raw, "questions") \/ Falsy(raw.questions) \/ ~IsArray(raw.questions) THEN raw
  ELSE [f \in DOMAIN raw |->
          IF f = "questions"
          THEN Arr([i \in 1..Len(raw.questions.arr) |->
                      normalizeQuestion(raw.questions.arr[i], fresh[i])])
          ELSE raw[f]]

FreshIds == {"r1", "r2"}

RawOptions == {[id |-> "a", text |-> "A"], [id |-> "b", text |-> "B"]}

RawOptionChoices ==
  {Undefined}
  \cup {CompactOptions(t) : t \in SeqsUpTo(Texts, MaxOptions)}
  \cup {Arr(o) : o \in SeqsUpTo(RawOptions, MaxOptions)}

RawAnswerChoices ==
  {Undefined, Str("true")}
  \cup {Arr(a) : a \in SeqsUpTo({Num(0), Num(1), Str("a")}, MaxAnswers)}

RawQuestions ==
  {WithField(WithField([type |-> ty, text |-> "What?", points |-> 5],
                       "options", o), "correctAnswers", ca) :
     ty \in {"SINGLE_CHOICE", "MULTIPLE_CHOICE", "FILL_IN_THE_BLANK"},
     o \in RawOptionChoices, ca \in RawAnswerChoices}

PlainRawQuestion ==
  [id |-> "q1", type |-> "TRUE_FALSE", text |-> "2 + 2 = 4", points |-> 10,
   correctAnswers |-> Arr(<<Str("true")>>)]

\* sequences of raw questions with at most one that is not PlainRawQuestion
RawQuestionSeqs ==
  {<<>>}
  \cup UNION {{[i \in 1..n |-> IF i = k THEN q ELSE PlainRawQuestion] :
                 q \in RawQuestions, k \in 1..n} : n \in 1..MaxQuestions}

\* what the text area may hold: not JSON, JSON that is not an object, a bare
\* array of questions, a quiz object
ImportTexts ==
  {NotJsonText}
  \cup {JSONstringify(v) : v \in {Num(5), Str("abc"), JsNull, [title |-> "X"],
                                   [title |-> "X", questions |-> Str("abc")]}}
  \cup {JSONstringify(Arr(s)) : s \in RawQuestionSeqs}
  \cup {JSONstringify([title |-> "X", questions |-> Arr(s)]) : s \in RawQuestionSeqs}
  \cup {JSONstringify([id |-> "k1", title |-> "X", questions |-> Arr(<<PlainRawQuestion>>)])}

InitImport ==
  /\ quiz = QuizMeta
  /\ EncodeIdle
  /\ DecodeIdle
  /\ key = EmptyString
  /\ keyOrigin = "none"
  /\ jsonText \in ImportTexts
  /\ importPc = "open"
  /\ importError = FALSE
  /\ imported = Undefined
  /\ AppIdle

\* the number of ids Math.random may be asked for
FreshCount(parsed) ==
  IF IsArray(parsed) THEN Len(parsed.arr)
  ELSE IF Has(parsed, "questions") /\ IsArray(parsed.questions)
       THEN Len(parsed.questions.arr) ELSE 0

\* JSON.parse, the object check, normalizeImportData, onImport, onClose
handleImport ==
  /\ importPc = "open"
  /\ LET parsed == JSONparse(jsonText)
     IN IF IsThrow(parsed) \/ ~(IsObject(parsed) \/ IsArray(parsed))
        THEN /\ importError' = TRUE
             /\ UNCHANGED <<importPc, imported>>
        ELSE \E fresh \in [1..FreshCount(parsed) -> FreshIds] :
               LET importData == IF IsArray(parsed) THEN [questions |-> parsed] ELSE parsed
               IN /\ imported' = normalizeImportData(importData, fresh)
                  /\ importPc' = "closed"
                  /\ importError' = importError
  /\ UNCHANGED <<jsonText, codecVars, appVars>>

\* the cancel button: onClose without onImport
cancelImport ==
  /\ importPc = "open"
  /\ importPc' = "closed"
  /\ UNCHANGED <<jsonText, importError, imported, codecVars, appVars>>

NextImport == handleImport \/ cancelImport

SpecImport == InitImport /\ [][NextImport]_vars

ImportDone == importPc = "closed" /\ imported # Undefined

\* the raw questions of the text that was imported
RawQuestionsOf(text) ==
  IF IsArray(text.json) THEN text.json.arr
  ELSE IF Has(text.json, "questions") /\ IsArray(text.json.questions)
       THEN text.json.questions.arr ELSE <<>>

\* C10: the correctAnswers of a choice question that are all integers become
\* the strings of i+1; in every other case every element is coerced to a
\* string with its value unchanged, whatever the type of the first element.
C10_NormalizeAnswers ==
  ImportDone =>
    \A i \in 1..Len(RawQuestionsOf(jsonText)) :
      LET q == RawQuestionsOf(jsonText)[i]
          out == imported.questions.arr[i].correctAnswers
      IN (Has(q, "correctAnswers") /\ IsArray(q.correctAnswers)) =>
           IF isChoiceType(q.type) /\ \A a \in Range(q.correctAnswers.arr) : IsNumber(a)
           THEN out = Arr([j \in 1..Len(q.correctAnswers.arr) |->
                             Str(NumberToString(q.correctAnswers.arr[j].num + 1))])
           ELSE out = Arr([j \in 1..Len(q.correctAnswers.arr) |->
                             IF IsString(q.correctAnswers.arr[j])
                             THEN q.correctAnswers.arr[j]
                             ELSE Str(NumberToString(q.correctAnswers.arr[j].num))])

\* the i-th question handed to the editor
ImportedQuestion(i) == imported.questions.arr[i]

AllStrings(a) == \A o \in Range(a.arr) : IsString(o)

\* C11: the options of a choice question given as plain strings become the
\* records {id: String(position + 1), text: the string} in the same order; the
\* options of every other question are handed over unchanged.
C11_NormalizeOptions ==
  ImportDone =>
    \A i \in 1..Len(RawQuestionsOf(jsonText)) :
      LET q == RawQuestionsOf(jsonText)[i]
          out == ImportedQuestion(i)
      IN IF /\ isChoiceType(q.type) /\ Has(q, "options")
            /\ IsArray(q.options) /\ AllStrings(q.options)
         THEN out.options = Arr([j \in 1..Len(q.options.arr) |->
                                   [id |-> NatToString(j), text |-> q.options.arr[j].str]])
         ELSE /\ Has(out, "options") = Has(q, "options")
              /\ Has(q, "options") => out.options = q.options

C11_Witness ==
  /\ ImportDone
  /\ \E i \in 1..Len(RawQuestionsOf(jsonText)) :
       LET q == RawQuestionsOf(jsonText)[i]
       IN /\ isChoiceType(q.type) /\ Has(q, "options")
          /\ AllStrings(q.options) /\ Len(q.options.arr) = 2
          /\ ImportedQuestion(i).options.arr[2] = [id |-> "2", text |-> q.options.arr[2].str]

\* the ids of the options of a normalized question
ImportedOptionIds(out) ==
  IF Has(out, "options") /\ IsArray(out.options)
  THEN {o.id : o \in {x \in Range(out.options.arr) : IsObject(x) /\ Has(x, "id")}}
  ELSE {}

\* C12: every value of the correctAnswers of a SINGLE_CHOICE/MULTIPLE_CHOICE
\* question handed to the editor is the id of one of the options of that
\* question.
C12_AnswersResolve ==
  ImportDone =>
    \A i \in 1..Len(RawQuestionsOf(jsonText)) :
      LET out == ImportedQuestion(i)
      IN (isChoiceType(out.type) /\ IsArray(out.correctAnswers)) =>
           \A a \in Range(out.correctAnswers.arr) :
             IsString(a) /\ a.str \in ImportedOptionIds(out)

\* the parsed text is a value that is not an object (typeof 'object' holds for
\* records and arrays only)
TopLevelNotObject(parsed) == ~IsThrow(parsed) /\ ~IsObject(parsed) /\ ~IsArray(parsed)

\* the parsed text is a record with a questions field that is not a sequence
QuestionsNotSequence(parsed) ==
  IsObject(parsed) /\ Has(parsed, "questions") /\ ~IsArray(parsed.questions)

C13_NotObjectRejected ==
  TopLevelNotObject(JSONparse(jsonText)) => imported = Undefined

C13_BareSequenceAccepted ==
  IsArray(JSONparse(jsonText)) =>
    /\ ~importError
    /\ ImportDone => /\ DOMAIN imported = {"questions"}
                     /\ Len(imported.questions.arr) = Len(JSONparse(jsonText).arr)

\* C13: nothing is handed to the editor when the parsed top-level value is not
\* an object, nor when its questions field is present but is not a sequence;
\* the error is shown for rejected texts only, and a bare top-level sequence is
\* taken as the list of questions.
C13_Validation ==
  /\ C13_NotObjectRejected
  /\ QuestionsNotSequence(JSONparse(jsonText)) => imported = Undefined
  /\ importError => \/ IsThrow(JSONparse(jsonText))
                    \/ TopLevelNotObject(JSONparse(jsonText))
                    \/ QuestionsNotSequence(JSONparse(jsonText))
  /\ C13_BareSequenceAccepted

\* every imported question has an id: its own when it had one, a fresh one
\* otherwise
C14_QuestionIds ==
  ImportDone =>
    \A i \in 1..Len(RawQuestionsOf(jsonText)) :
      LET q == RawQuestionsOf(jsonText)[i]
      IN /\ Has(ImportedQuestion(i), "id")
         /\ ImportedQuestion(i).id = (IF Has(q, "id") THEN q.id ELSE ImportedQuestion(i).id)
         /\ ~Has(q, "id") => ImportedQuestion(i).id \in FreshIds

\* C14: what is handed to the editor carries an id on the quiz set itself and
\* on every question: the id of the input where it had one, a freshly
\* generated string where it had none.
C14_IdsAssigned ==
  ImportDone =>
    /\ C14_QuestionIds
    /\ Has(imported, "id")
    /\ imported.id = (IF Has(jsonText.json, "id") THEN jsonText.json.id ELSE imported.id)
    /\ ~Has(jsonText.json, "id") => imported.id \in FreshIds

\* C15: normalizing what the normalizer produced changes nothing, whatever
\* ids the generator would hand out in the second pass: no id is assigned, no
\* options and no correctAnswers change.
C15_Idempotent ==
  ImportDone =>
    \A fresh2 \in [1..FreshCount(imported) -> FreshIds] :
      normalizeImportData(imported, fresh2) = imported

\* a first pass that rewrote both the options and the answers of a question
C15_Witness ==
  /\ ImportDone
  /\ \E i \in 1..Len(RawQuestionsOf(jsonText)) :
       LET q == RawQuestionsOf(jsonText)[i]
       IN /\ Has(q, "options") /\ Has(q, "correctAnswers")
          /\ ImportedQuestion(i).options # q.options
          /\ ImportedQuestion(i).correctAnswers # q.correctAnswers
          /\ ImportedQuestion(i).id \in FreshIds

(***************************************************************************)
(* The quiz library of App: quizzes is the state of the last render, and a *)
(* handler works on the quizzes of the render that created it.             *)
(***************************************************************************)
LibraryIds == {"k1", "k2"}

\* a quiz as a share key carries it, and as the editor saves it
SharedQuiz(id) == [id |-> id, title |-> "shared"]
EditedQuiz(id) == [id |-> id, title |-> "edited"]

\* what decodeQuizKey resolves to: null or a quiz
DecodedValues == {JsNull} \cup {SharedQuiz(id) : id \in LibraryIds}

\* list.some(q => q.id === id)
some(list, id) == \E i \in 1..Len(list) : list[i].id = id

\* list.filter(q => q.id !== id)
filter(list, id) == SelectSeq(list, LAMBDA q : q.id # id)

\* list.map(q => q.id === quiz.id ? quiz : q)
mapReplace(list, qz) == [i \in 1..Len(list) |-> IF list[i].id = qz.id THEN qz ELSE list[i]]

showAlert(title, type) == [isOpen |-> TRUE, title |-> title, type |-> type]

showConfirm(title, onConfirm) ==
  [isOpen |-> TRUE, title |-> title, type |-> "confirm", onConfirm |-> onConfirm]

\* performImport up to its await: the call keeps the quizzes of its render
performImportCall(o, decoded) ==
  /\ inFlight[o].pc = "idle"
  /\ ~dialog.isOpen
  /\ isImporting' = TRUE
  /\ inFlight' = [inFlight EXCEPT ![o] = [pc |-> "await", decoded |-> decoded,
                                          quizzes |-> quizzes]]
  /\ UNCHANGED <<quizzes, dialog, codecVars, importVars, concVars, gradeVars, uiVars>>

\* the Import button, in its loading state while isImporting
handleImportKey == ~isImporting /\ \E d \in DecodedValues : performImportCall("paste", d)

onQRScanSuccess == \E d \in DecodedValues : performImportCall("qr", d)

\* performImport after its await
performImportResume(o) ==
  /\ inFlight[o].pc = "await"
  /\ isImporting' = FALSE
  /\ LET decoded == inFlight[o].decoded
         closure == inFlight[o].quizzes
     IN IF ~IsNull(decoded)
        THEN IF some(closure, decoded.id)
             THEN /\ dialog' = showAlert("Duplicate Quiz", "warning")
                  /\ quizzes' = quizzes
             ELSE /\ quizzes' = <<decoded>> \o closure
                  /\ dialog' = showAlert("Success", "success")
        ELSE /\ dialog' = showAlert("Import Failed", "error")
             /\ quizzes' = quizzes
  /\ inFlight' = [inFlight EXCEPT ![o] = [pc |-> "idle"]]
  /\ UNCHANGED <<codecVars, importVars, concVars, gradeVars, uiVars>>

handleSaveQuiz(qz) ==
  /\ ~dialog.isOpen
  /\ quizzes' = IF some(quizzes, qz.id) THEN mapReplace(quizzes, qz)
                ELSE <<qz>> \o quizzes
  /\ UNCHANGED <<isImporting, inFlight, dialog, codecVars, importVars, concVars, gradeVars, uiVars>>

\* the delete button of a card: the confirm callback keeps the quizzes of
\* the render
handleDelete(id) ==
  /\ ~dialog.isOpen
  /\ some(quizzes, id)
  /\ dialog' = showConfirm("Delete Quiz", [id |-> id, quizzes |-> quizzes])
  /\ UNCHANGED <<quizzes, isImporting, inFlight, codecVars, importVars, concVars, gradeVars, uiVars>>

\* the confirm button of the dialog: onConfirm, then onClose
confirmDelete ==
  /\ dialog.isOpen
  /\ dialog.type = "confirm"
  /\ quizzes' = filter(dialog.onConfirm.quizzes, dialog.onConfirm.id)
  /\ dialog' = [dialog EXCEPT !.isOpen = FALSE]
  /\ UNCHANGED <<isImporting, inFlight, codecVars, importVars, concVars, gradeVars, uiVars>>

closeDialog ==
  /\ dialog.isOpen
  /\ dialog' = [dialog EXCEPT !.isOpen = FALSE]
  /\ UNCHANGED <<quizzes, isImporting, inFlight, codecVars, importVars, concVars, gradeVars, uiVars>>

InitLibrary ==
  /\ quiz = QuizMeta
  /\ EncodeIdle
  /\ DecodeIdle
  /\ key = EmptyString
  /\ keyOrigin = "none"
  /\ ImportIdle
  /\ LibraryIdle
  /\ ConcurrentIdle
  /\ TakerIdle
  /\ UiIdle

NextLibrary ==
  \/ handleImportKey
  \/ onQRScanSuccess
  \/ \E o \in Origins : performImportResume(o)
  \/ \E id \in LibraryIds : handleSaveQuiz(EditedQuiz(id))
  \/ \E id \in LibraryIds : handleDelete(id)
  \/ confirmDelete
  \/ closeDialog

SpecLibrary == InitLibrary /\ [][NextLibrary]_vars

C16_Unique ==
  \A i, j \in 1..Len(quizzes) : i # j => quizzes[i].id # quizzes[j].id

\* an import that finishes with a quiz whose id is in the library shows the
\* duplicate warning and leaves the library as it is
C16_DuplicateRejected ==
  [][\A o \in Origins :
       (/\ performImportResume(o)
        /\ ~IsNull(inFlight[o].decoded)
        /\ some(quizzes, inFlight[o].decoded.id))
       => (quizzes' = quizzes /\ dialog'.title = "Duplicate Quiz")]_vars

\* C16: whatever the interleaving of saves, imports (two may be awaiting
\* their key at once) and deletes, no two quizzes of the library have the
\* same id, and an import whose decoded id is in the library is rejected and
\* leaves the library unchanged.
C16_LibraryIds == []C16_Unique /\ C16_DuplicateRejected

(***************************************************************************)
(* Several calls of encodeQuizKey and decodeQuizKey under way at once,     *)
(* each suspended at the await of a reader.read() of its consumeStream.    *)
(***************************************************************************)
MaxCalls == 2

CallIds == 1..MaxCalls

ConcurrentQuizzes ==
  {QuizMeta, [title |-> "X", questions |-> Arr(<<>>)]}
  \cup {QuizMeta @@ ("questions" :> Arr(<<p>>)) : p \in PlainQuestions}

\* what a call that meets no other call resolves to
encodeAlone(qz, streamOk) ==
  LET m == toMinified(qz)
  IN encodeCatch(IF IsThrow(m) \/ ~streamOk THEN Throw
                 ELSE V2Key(uint8ArrayToBase64(consumeStream(
                        CompressionStream(TextEncode(JSONstringify(m)))))))

decodeAlone(k) ==
  LET compressedData == base64ToUint8Array(k.rest)
      chunks == IF IsThrow(compressedData) THEN Throw
                ELSE DecompressionStream(compressedData)
      parsed == IF IsThrow(chunks) THEN Throw
                ELSE JSONparse(TextDecode(consumeStream(chunks)))
  IN decodeCatch(IF IsThrow(parsed) THEN Throw
                 ELSE decodeDispatch(startsWithV2(k), parsed))

ConcurrentKeys ==
  {encodeAlone(qz, TRUE).value : qz \in ConcurrentQuizzes \ {QuizMeta}}
  \cup {encodeQuizKeyV1(QuizMeta), V2Key(InvalidBase64),
        V2Key(uint8ArrayToBase64(CorruptBytes)),
        V2Key(uint8ArrayToBase64(consumeStream(CompressionStream(Bytes(<<>>))))),
        V1Key(uint8ArrayToBase64(consumeStream(
          CompressionStream(TextEncode(JSONstringify(Num(5)))))))}

chunksShared(c) == 1

\* the chunks array belongs to the consumeStream call that declares it
chunksOf(c) == c

\* some other call is suspended in its consumeStream
OthersReading(c) == \E d \in CallIds \ {c} : calls[d].pc = "read"

\* encodeQuizKey up to the first await; streamOk tells whether the
\* compression stream will deliver its chunks
ConcurrentEncodeCall(c, qz, streamOk) ==
  /\ calls[c].pc = "idle"
  /\ LET m == toMinified(qz)
         call == [kind |-> "encode", arg |-> qz, streamOk |-> streamOk,
                  isV2 |-> TRUE, overlapped |-> FALSE]
     IN IF IsThrow(m)
        THEN /\ calls' = [calls EXCEPT ![c] =
                            call @@ [pc |-> "done", result |-> encodeCatch(Throw)]]
             /\ chunkStore' = chunkStore
        ELSE /\ calls' = [calls EXCEPT ![c] =
                            call @@ [pc |-> "read",
                                     reader |-> CompressionStream(
                                       TextEncode(JSONstringify(m))).chunks]]
             /\ chunkStore' = [chunkStore EXCEPT ![chunksOf(c)] = <<>>]
  /\ UNCHANGED <<codecVars, importVars, libVars, gradeVars, uiVars>>

\* decodeQuizKey up to the first await
ConcurrentDecodeCall(c, k) ==
  /\ calls[c].pc = "idle"
  /\ LET compressedData == base64ToUint8Array(k.rest)
         call == [kind |-> "decode", arg |-> k, isV2 |-> startsWithV2(k),
                  overlapped |-> FALSE]
     IN IF IsThrow(compressedData)
        THEN /\ calls' = [calls EXCEPT ![c] =
                            call @@ [pc |-> "done", streamOk |-> TRUE,
                                     result |-> decodeCatch(Throw)]]
             /\ chunkStore' = chunkStore
        ELSE LET stream == DecompressionStream(compressedData)
             IN /\ calls' = [calls EXCEPT ![c] =
                               call @@ [pc |-> "read", streamOk |-> ~IsThrow(stream),
                                        reader |-> IF IsThrow(stream) THEN <<>>
                                                   ELSE stream.chunks]]
                /\ chunkStore' = [chunkStore EXCEPT ![chunksOf(c)] = <<>>]
  /\ UNCHANGED <<codecVars, importVars, libVars, gradeVars, uiVars>>

\* what the call returns once consumeStream handed it its buffer
ConcurrentReturn(call, buf) ==
  IF call.kind = "encode" THEN encodeCatch(V2Key(uint8ArrayToBase64(buf)))
  ELSE LET parsed == JSONparse(TextDecode(buf))
       IN decodeCatch(IF IsThrow(parsed) THEN Throw
                      ELSE decodeDispatch(call.isV2, parsed))

\* one await reader.read() resumes: the stream's error, the next chunk, or
\* done, after which the chunks are joined and the call returns
ConcurrentRead(c) ==
  /\ calls[c].pc = "read"
  /\ LET call == [calls[c] EXCEPT !.overlapped = @ \/ OthersReading(c)]
     IN IF ~call.streamOk
        THEN /\ calls' = [calls EXCEPT ![c] =
                            [call EXCEPT !.pc = "done"] @@
                            [result |-> IF call.kind = "encode" THEN encodeCatch(Throw)
                                        ELSE decodeCatch(Throw)]]
             /\ chunkStore' = chunkStore
        ELSE IF call.reader # <<>>
        THEN /\ calls' = [calls EXCEPT ![c] = [call EXCEPT !.reader = Tail(@)]]
             /\ chunkStore' = [chunkStore EXCEPT ![chunksOf(c)] =
                                 Append(@, Head(call.reader))]
        ELSE /\ calls' = [calls EXCEPT ![c] =
                            [call EXCEPT !.pc = "done"] @@
                            [result |-> ConcurrentReturn(
                               call, Bytes(Concat(chunkStore[chunksOf(c)])))]]
             /\ chunkStore' = chunkStore
  /\ UNCHANGED <<codecVars, importVars, libVars, gradeVars, uiVars>>

InitConcurrent ==
  /\ quiz = QuizMeta
  /\ EncodeIdle
  /\ DecodeIdle
  /\ key = EmptyString
  /\ keyOrigin = "none"
  /\ ImportIdle
  /\ LibraryIdle
  /\ TakerIdle
  /\ UiIdle
  /\ calls = [c \in CallIds |-> [pc |-> "idle"]]
  /\ chunkStore = [c \in CallIds |-> <<>>]

NextConcurrent ==
  \/ \E c \in CallIds, qz \in ConcurrentQuizzes, streamOk \in BOOLEAN :
       ConcurrentEncodeCall(c, qz, streamOk)
  \/ \E c \in CallIds, k \in ConcurrentKeys : ConcurrentDecodeCall(c, k)
  \/ \E c \in CallIds : ConcurrentRead(c)

SpecConcurrent == InitConcurrent /\ [][NextConcurrent]_vars

\* C17: whatever the interleaving of the reads of the calls under way, each
\* call of encodeQuizKey and decodeQuizKey resolves to what it resolves to
\* when it runs alone on the same argument; the tables are definitions, which
\* no step writes.
C17_Independent ==
  \A c \in DOMAIN calls :
    calls[c].pc = "done" =>
      calls[c].result = IF calls[c].kind = "encode"
                        THEN encodeAlone(calls[c].arg, calls[c].streamOk)
                        ELSE decodeAlone(calls[c].arg)

\* an encode and a decode that were suspended in their reads at the same time
\* and both resolved to a value
C17_Witness ==
  \E c, d \in DOMAIN calls :
    /\ calls[c].pc = "done" /\ calls[c].kind = "encode" /\ calls[c].overlapped
    /\ calls[c].result # Fulfilled(EmptyString)
    /\ calls[d].pc = "done" /\ calls[d].kind = "decode" /\ calls[d].overlapped
    /\ calls[d].result # Fulfilled(JsNull)

\* a V2 payload with q a sequence of questions and some of i, t, d, c missing
SparsePayload(k) ==
  /\ KeyStage(k) = "parsed"
  /\ startsWithV2(k)
  /\ IsObject(KeyJson(k))
  /\ Has(KeyJson(k), "q") /\ IsArray(KeyJson(k).q)
  /\ \A m \in Range(KeyJson(k).q.arr) :
       /\ Has(m, "ca") /\ IsArray(m.ca)
       /\ Has(m, "o") => IsArray(m.o)
  /\ DOMAIN KeyJson(k) \subseteq {"i", "t", "d", "c", "q"}
  /\ DOMAIN KeyJson(k) # {"i", "t", "d", "c", "q"}

\* C19: a V2 key whose payload has q as a sequence and lacks other top-level
\* keys decodes to a quiz, not to null: the fields present are there under
\* their full names with the values of the payload, the fields missing are
\* absent, and no id is made up.
C19_SparsePayload ==
  (DecodeDone /\ SparsePayload(key)) =>
    /\ decResult.state = "fulfilled"
    /\ IsObject(decResult.value)
    /\ DOMAIN decResult.value = FullNames(DOMAIN KeyJson(key))
    /\ \A k \in DOMAIN KeyJson(key) \ {"q"} :
         decResult.value[FullName(k)] = KeyJson(key)[k]
    /\ Len(decResult.value.questions.arr) = Len(KeyJson(key).q.arr)

C19_Witness ==
  /\ DecodeDone
  /\ SparsePayload(key)
  /\ KeyJson(key) = [t |-> "X", q |-> Arr(<<>>)]
  /\ decResult = Fulfilled([title |-> "X", questions |-> Arr(<<>>)])

(***************************************************************************)
(* QuizTaker: the answers typed or picked, and calculateGrade.  A string   *)
(* the grading looks into is the sequence of its characters.               *)
(***************************************************************************)
MaxAnswerLen == 3

\* the characters a user types into the blank
TypedChars == {" ", "a", "A", "b", "|"}

toLowerChar(c) == IF c = "A" THEN "a" ELSE c

toLowerCase(t) == [i \in 1..Len(t) |-> toLowerChar(t[i])]

RECURSIVE trimStart(_)
trimStart(t) == IF t # <<>> /\ Head(t) = " " THEN trimStart(Tail(t)) ELSE t

RECURSIVE trimEnd(_)
trimEnd(t) ==
  IF t # <<>> /\ t[Len(t)] = " " THEN trimEnd(SubSeq(t, 1, Len(t) - 1)) ELSE t

trim(t) == trimEnd(trimStart(t))

\* UTF-16 code units, the order Array.prototype.sort compares strings by
charCode(c) ==
  CASE c = " " -> 32 [] c = "," -> 44 [] c = "1" -> 49 [] c = "2" -> 50
    [] c = "A" -> 65 [] c = "a" -> 97 [] c = "b" -> 98 [] c = "|" -> 124

RECURSIVE stringLess(_, _)
stringLess(a, b) ==
  IF b = <<>> THEN FALSE
  ELSE IF a = <<>> THEN TRUE
  ELSE IF Head(a) # Head(b) THEN charCode(Head(a)) < charCode(Head(b))
  ELSE stringLess(Tail(a), Tail(b))

RECURSIVE insertSorted(_, _)
insertSorted(x, list) ==
  IF list = <<>> THEN <<x>>
  ELSE IF stringLess(Head(list), x) THEN <<Head(list)>> \o insertSorted(x, Tail(list))
  ELSE <<x>> \o list

\* [...list].sort()
RECURSIVE sort(_)
sort(list) == IF list = <<>> THEN <<>> ELSE insertSorted(Head(list), sort(Tail(list)))

\* list.join(',')
RECURSIVE join(_)
join(list) ==
  IF list = <<>> THEN <<>>
  ELSE IF Len(list) = 1 THEN list[1]
  ELSE list[1] \o <<",">> \o join(Tail(list))

\* userAns === q.correctAnswers[0]
strictEqualsFirst(userAns, correctAnswers) ==
  IF correctAnswers = <<>> THEN userAns = Undefined
  ELSE userAns = Str(correctAnswers[1])

\* the entry as a whole is compared with the answer
fillMatches(userAns, correctAnswers) ==
  LET normalizedUser == toLowerCase(trim(IF IsString(userAns) THEN userAns.str ELSE <<>>))
  IN \E i \in 1..Len(correctAnswers) :
       toLowerCase(trim(correctAnswers[i])) = normalizedUser

multipleMatches(userAns, correctAnswers) ==
  LET sortedCorrect == join(sort(correctAnswers))
      sortedUser == IF IsArray(userAns) THEN join(sort(userAns.arr)) ELSE <<>>
  IN sortedCorrect = sortedUser

gradeIsCorrect(q, userAns) ==
  CASE q.type \in {"SINGLE_CHOICE", "TRUE_FALSE"} ->
         strictEqualsFirst(userAns, q.correctAnswers)
    [] q.type = "MULTIPLE_CHOICE" -> multipleMatches(userAns, q.correctAnswers)
    [] q.type = "FILL_IN_THE_BLANK" -> fillMatches(userAns, q.correctAnswers)
    [] q.type = "SUBJECTIVE" -> TRUE
    [] OTHER -> FALSE

gradeScore(q, isCorrect) ==
  IF q.type = "SUBJECTIVE" \/ q.type \notin QuestionTypes THEN 0
  ELSE IF isCorrect THEN q.points ELSE 0

gradeQuestion(q, userAns) ==
  [questionId |-> q.id, isCorrect |-> gradeIsCorrect(q, userAns),
   score |-> gradeScore(q, gradeIsCorrect(q, userAns)), maxScore |-> q.points]

OptionIdA == <<"1">>
OptionIdB == <<"2">>

FillAnswerLists ==
  {<< <<"a", "|", "b">> >>, << <<" ", "A">> >>, << <<"b">>, <<"a", "|", "A">> >>, <<>>}

TakerQuestions ==
  {[id |-> "qf", type |-> "FILL_IN_THE_BLANK", points |-> 5, correctAnswers |-> ca] :
     ca \in FillAnswerLists}
  \cup {[id |-> "qs", type |-> ty, points |-> 2, correctAnswers |-> ca] :
          ty \in {"SINGLE_CHOICE", "TRUE_FALSE"}, ca \in {<<OptionIdA>>, <<>>}}
  \cup {[id |-> "qm", type |-> "MULTIPLE_CHOICE", points |-> 3, correctAnswers |-> ca] :
          ca \in SeqsUpTo({OptionIdA, OptionIdB}, 2)}
  \cup {[id |-> "qj", type |-> "SUBJECTIVE", points |-> 4, correctAnswers |-> <<>>]}

\* what the renderer of a question hands to onChange
AnswerValues(q) ==
  CASE q.type = "FILL_IN_THE_BLANK" -> {Str(t) : t \in SeqsUpTo(TypedChars, MaxAnswerLen)}
    [] q.type = "MULTIPLE_CHOICE" ->
         {Arr(a) : a \in {<<>>, <<OptionIdA>>, <<OptionIdB>>, <<OptionIdA, OptionIdB>>,
                          <<OptionIdB, OptionIdA>>}}
    [] q.type = "SUBJECTIVE" -> {Str(<<"a">>)}
    [] OTHER -> {Str(OptionIdA), Str(OptionIdB)}

TakerQuestionIds == {q.id : q \in TakerQuestions}

QuestionIds(qz) == {qz.questions[i].id : i \in 1..Len(qz.questions)}

InitTaker ==
  /\ quiz = QuizMeta
  /\ EncodeIdle
  /\ DecodeIdle
  /\ key = EmptyString
  /\ keyOrigin = "none"
  /\ ImportIdle
  /\ LibraryIdle
  /\ ConcurrentIdle
  /\ UiIdle
  /\ takerQuiz \in {[id |-> "k1", title |-> "Capitals", questions |-> <<q>>] :
                      q \in TakerQuestions}
  /\ answers = [id \in QuestionIds(takerQuiz) |-> Undefined]
  /\ grades = <<>>
  /\ isSubmitted = FALSE

\* setAnswers(prev => ({ ...prev, [qId]: value })), not once graded
handleAnswerChange(qId) ==
  /\ ~isSubmitted
  /\ qId \in QuestionIds(takerQuiz)
  /\ \E q \in Range(takerQuiz.questions) :
       /\ q.id = qId
       /\ \E value \in AnswerValues(q) : answers' = [answers EXCEPT ![qId] = value]
  /\ UNCHANGED <<takerQuiz, grades, isSubmitted, codecVars, importVars, libVars, concVars, uiVars>>

calculateGrade ==
  /\ ~isSubmitted
  /\ grades' = [i \in 1..Len(takerQuiz.questions) |->
                  gradeQuestion(takerQuiz.questions[i], answers[takerQuiz.questions[i].id])]
  /\ isSubmitted' = TRUE
  /\ UNCHANGED <<takerQuiz, answers, codecVars, importVars, libVars, concVars, uiVars>>

NextTaker ==
  \/ \E qId \in TakerQuestionIds : handleAnswerChange(qId)
  \/ calculateGrade

SpecTaker == InitTaker /\ [][NextTaker]_vars

\* the synonyms of an accepted entry: its parts between the pipes
RECURSIVE Synonyms(_)
Synonyms(entry) ==
  IF \E i \in 1..Len(entry) : entry[i] = "|"
  THEN LET i == CHOOSE i \in 1..Len(entry) :
                  entry[i] = "|" /\ \A j \in 1..(i - 1) : entry[j] # "|"
       IN {SubSeq(entry, 1, i - 1)} \cup Synonyms(SubSeq(entry, i + 1, Len(entry)))
  ELSE {entry}

\* C20: the answer to a FILL_IN_THE_BLANK question that equals, ignoring case
\* and leading and trailing whitespace, one of the synonyms of a
\* pipe-delimited accepted entry is graded correct and earns the points.
C20_SynonymGrading ==
  isSubmitted =>
    \A i \in 1..Len(takerQuiz.questions) :
      LET q == takerQuiz.questions[i]
          userAns == answers[q.id]
      IN (/\ q.type = "FILL_IN_THE_BLANK"
          /\ IsString(userAns)
          /\ \E e \in Range(q.correctAnswers) : \E syn \in Synonyms(e) :
               toLowerCase(trim(syn)) = toLowerCase(trim(userAns.str)))
         => (grades[i].isCorrect /\ grades[i].score = q.points)

(***************************************************************************)
(* The share dialog of App: the effect on showShareModal starts an         *)
(* encodeQuizKey whose result, whenever it comes, is stored as the key.    *)
(***************************************************************************)
MaxShareCalls == 3

SharedQuizA == QuizMeta @@ ("questions" :> Arr(<<CHOOSE p \in PlainQuestions : TRUE>>))
SharedQuizB == [id |-> "k2", title |-> "X", questions |-> Arr(<<>>)]

\* the libraries the cards are drawn from
SharedLibraries ==
  {<<SharedQuizA, SharedQuizB>>, <<SharedQuizB, SharedQuizA>>, <<SharedQuizA>>}

\* list.find(q => q.id === id)
find(list, id) ==
  IF some(list, id)
  THEN list[CHOOSE i \in 1..Len(list) : list[i].id = id /\ \A j \in 1..(i - 1) : list[j].id # id]
  ELSE Undefined

\* the share button of a card, then the effect: the quiz is looked up and
\* encodeQuizKey(quiz) is called, its promise left pending
onShare(id) ==
  /\ showShareModal = JsNull
  /\ Len(shareCalls) < MaxShareCalls
  /\ some(quizzes, id)
  /\ showShareModal' = Str(id)
  /\ shareCalls' = Append(shareCalls, find(quizzes, id))
  /\ UNCHANGED <<generatedKey, editorVars, codecVars, importVars, libVars, concVars, gradeVars>>

\* the close button of the dialog, then the effect: the key is cleared
closeShare ==
  /\ showShareModal # JsNull
  /\ showShareModal' = JsNull
  /\ generatedKey' = EmptyString
  /\ UNCHANGED <<shareCalls, editorVars, codecVars, importVars, libVars, concVars, gradeVars>>

\* the promise of the n-th pending encodeQuizKey resolves: .then(key =>
\* setGeneratedKey(key))
shareKeyResolved(n) ==
  /\ n \in 1..Len(shareCalls)
  /\ \E streamOk \in BOOLEAN :
       generatedKey' = encodeAlone(shareCalls[n], streamOk).value
  /\ shareCalls' = [i \in 1..(Len(shareCalls) - 1) |->
                      IF i < n THEN shareCalls[i] ELSE shareCalls[i + 1]]
  /\ UNCHANGED <<showShareModal, editorVars, codecVars, importVars, libVars, concVars, gradeVars>>

InitShare ==
  /\ quiz = QuizMeta
  /\ EncodeIdle
  /\ DecodeIdle
  /\ key = EmptyString
  /\ keyOrigin = "none"
  /\ ImportIdle
  /\ isImporting = FALSE
  /\ inFlight = [o \in Origins |-> [pc |-> "idle"]]
  /\ dialog = [isOpen |-> FALSE, title |-> "", type |-> "info"]
  /\ quizzes \in SharedLibraries
  /\ ConcurrentIdle
  /\ TakerIdle
  /\ UiIdle

NextShare ==
  \/ \E id \in LibraryIds : onShare(id)
  \/ closeShare
  \/ \E n \in 1..MaxShareCalls : shareKeyResolved(n)

SpecShare == InitShare /\ [][NextShare]_vars

\* C21: the key shown is empty whenever the share dialog is closed, and a
\* key shown while the dialog is open for a quiz is the encoding of that
\* quiz: the late result of an encode started for an earlier dialog never
\* becomes the key shown.
C21_StaleKeyDiscarded ==
  /\ showShareModal = JsNull => generatedKey = EmptyString
  /\ (showShareModal # JsNull /\ generatedKey # EmptyString) =>
       generatedKey = encodeAlone(find(quizzes, showShareModal.str), TRUE).value

(***************************************************************************)
(* The unminifier against the Normalizer, and numeric-string answers.      *)
(***************************************************************************)
\* a V2 choice question whose options are all texts
HasTextOptions(m) == \A e \in Range(m.o.arr) : IsString(e)

\* the raw import question with the same options and answers as payload m
RawCounterpart(m) ==
  [type |-> REV_TYPE_MAP[m.ty], options |-> m.o, correctAnswers |-> m.ca]

\* C22: for every sequence of option texts (the empty one included) and
\* every sequence of integer answer indices of a choice question,
\* unminifying {o, ca} gives the options and the correctAnswers that
\* normalizing {options, correctAnswers} gives.
C22_UnminifyMirrorsNormalize ==
  (DecodeDone /\ IsChoicePayload(key)) =>
    LET m == KeyJson(key).q.arr[1]
    IN (HasTextOptions(m) /\ \A a \in Range(m.ca.arr) : IsNumber(a)) =>
         /\ decResult.state = "fulfilled" /\ decResult.value # JsNull
         /\ decResult.value.questions.arr[1].options = normalizeOptions(RawCounterpart(m))
         /\ decResult.value.questions.arr[1].correctAnswers =
              normalizeAnswers(RawCounterpart(m))

\* the index an answer of the payload denotes, written as a number or as
\* the numeric string of that number
IndexOf(a) ==
  IF IsNumber(a) THEN a.num
  ELSE CHOOSE i \in 0..MaxOptions : NumberToString(i) = a.str

\* C23: a compact V2 choice question decodes to the same correctAnswers
\* whether an answer index i is written as the integer i or as the numeric
\* string of i: the id of the option at position i, the string of i+1.
C23_NumericStringAnswers ==
  (DecodeDone /\ IsChoicePayload(key)) =>
    LET m == KeyJson(key).q.arr[1]
    IN (/\ HasTextOptions(m) /\ Len(m.o.arr) > 0
        /\ \A a \in Range(m.ca.arr) : IndexOf(a) \in 0..(Len(m.o.arr) - 1)) =>
         /\ decResult.state = "fulfilled" /\ decResult.value # JsNull
         /\ decResult.value.questions.arr[1].correctAnswers =
              Arr([j \in 1..Len(m.ca.arr) |-> Str(NumberToString(IndexOf(m.ca.arr[j]) + 1))])

(***************************************************************************)
(* QuizEditor: the questions under edit and the option handlers.  Ids and  *)
(* texts are plain strings; a question without options has no options      *)
(* field.                                                                  *)
(***************************************************************************)
MaxEditorOptions == 3

\* what Math.random().toString(36).substr(2, 9) yields
EditorQuestionIds == {"r1"}

EditorTypes == {"SINGLE_CHOICE", "MULTIPLE_CHOICE", "FILL_IN_THE_BLANK"}

EditorTexts == {"A"}

includes(list, val) == \E i \in 1..Len(list) : list[i] = val

\* questions.map(q => q.id === id ? { ...q, ...updates } : q)
updateQuestion(id, updates) ==
  [i \in 1..Len(editorQuestions) |->
     IF editorQuestions[i].id = id
     THEN [f \in DOMAIN editorQuestions[i] \cup DOMAIN updates |->
             IF f \in DOMAIN updates THEN updates[f] ELSE editorQuestions[i][f]]
     ELSE editorQuestions[i]]

EditorUnchanged == UNCHANGED <<codecVars, importVars, libVars, concVars, gradeVars, shareVars>>

addQuestion(type) ==
  /\ \E id \in EditorQuestionIds :
       /\ ~some(editorQuestions, id)
       /\ editorQuestions' =
            Append(editorQuestions,
                   IF isChoiceType(type)
                   THEN [id |-> id, type |-> type, text |-> "", points |-> 5,
                         correctAnswers |-> <<>>,
                         options |-> <<[id |-> "1", text |-> "Option 1"],
                                       [id |-> "2", text |-> "Option 2"]>>]
                   ELSE [id |-> id, type |-> type, text |-> "", points |-> 5,
                         correctAnswers |-> <<>>])
  /\ EditorUnchanged

\* the delete button of a question card
removeEditorQuestion(qId) ==
  /\ some(editorQuestions, qId)
  /\ editorQuestions' = SelectSeq(editorQuestions, LAMBDA q : q.id # qId)
  /\ EditorUnchanged

handleOptionChange(qId) ==
  /\ some(editorQuestions, qId)
  /\ LET q == find(editorQuestions, qId)
     IN /\ Has(q, "options")
        /\ \E o \in Range(q.options), text \in EditorTexts :
             editorQuestions' =
               updateQuestion(qId,
                 [options |-> [i \in 1..Len(q.options) |->
                                 IF q.options[i].id = o.id
                                 THEN [id |-> q.options[i].id, text |-> text]
                                 ELSE q.options[i]]])
  /\ EditorUnchanged

\* the answer mark of an option: val is the id of a rendered option
toggleCorrectAnswer(qId) ==
  /\ some(editorQuestions, qId)
  /\ LET q == find(editorQuestions, qId)
     IN /\ Has(q, "options")
        /\ \E o \in Range(q.options) :
             LET val == o.id
                 isSingle == q.type = "SINGLE_CHOICE"
                 newAnswers ==
                   IF isSingle THEN <<val>>
                   ELSE IF includes(q.correctAnswers, val)
                        THEN SelectSeq(q.correctAnswers, LAMBDA a : a # val)
                        ELSE Append(q.correctAnswers, val)
             IN editorQuestions' = updateQuestion(qId, [correctAnswers |-> newAnswers])
  /\ EditorUnchanged

\* (q.options.length + 1).toString()
addOptionNextId(q) == NumberToString(Len(q.options) + 1)

addOption(qId) ==
  /\ some(editorQuestions, qId)
  /\ LET q == find(editorQuestions, qId)
     IN /\ Has(q, "options")
        /\ Len(q.options) < MaxEditorOptions
        /\ LET nextId == addOptionNextId(q)
           IN editorQuestions' =
                updateQuestion(qId,
                  [options |-> Append(q.options,
                                      [id |-> nextId, text |-> "Option " \o nextId])])
  /\ EditorUnchanged

removeOption(qId) ==
  /\ some(editorQuestions, qId)
  /\ LET q == find(editorQuestions, qId)
     IN /\ Has(q, "options")
        /\ ~(Len(q.options) <= 1)
        /\ \E o \in Range(q.options) :
             editorQuestions' =
               updateQuestion(qId,
                 [options |-> SelectSeq(q.options, LAMBDA x : x.id # o.id),
                  correctAnswers |-> SelectSeq(q.correctAnswers, LAMBDA a : a # o.id)])
  /\ EditorUnchanged

InitEditor ==
  /\ quiz = QuizMeta
  /\ EncodeIdle
  /\ DecodeIdle
  /\ key = EmptyString
  /\ keyOrigin = "none"
  /\ ImportIdle
  /\ AppIdle

NextEditor ==
  \/ \E type \in EditorTypes : addQuestion(type)
  \/ \E qId \in EditorQuestionIds : removeEditorQuestion(qId)
  \/ \E qId \in EditorQuestionIds : handleOptionChange(qId)
  \/ \E qId \in EditorQuestionIds : toggleCorrectAnswer(qId)
  \/ \E qId \in EditorQuestionIds : addOption(qId)
  \/ \E qId \in EditorQuestionIds : removeOption(qId)

SpecEditor == InitEditor /\ [][NextEditor]_vars

\* C24: no two options of a choice question under edit have the same id.
C24_UniqueOptionIds ==
  \A i \in 1..Len(editorQuestions) :
    Has(editorQuestions[i], "options") =>
      \A j, k \in 1..Len(editorQuestions[i].options) :
        editorQuestions[i].options[j].id = editorQuestions[i].options[k].id => j = k

\* C25: every correctAnswers value of a choice question under edit is the
\* id of an option still present, and the question has at least one option.
C25_AnswersResolvable ==
  \A i \in 1..Len(editorQuestions) :
    Has(editorQuestions[i], "options") =>
      /\ Len(editorQuestions[i].options) >= 1
      /\ \A a \in Range(editorQuestions[i].correctAnswers) :
           \E o \in Range(editorQuestions[i].options) : o.id = a

(***************************************************************************)
(* Completion of the codec calls.  A read that is awaited resumes once the *)
(* stream has a chunk, is done or has failed, and the event loop runs the  *)
(* continuation: weak fairness of each call's read.                        *)
(***************************************************************************)
SpecConcurrentFair ==
  SpecConcurrent /\ \A c \in CallIds : WF_vars(ConcurrentRead(c))

\* the stream a call drains
StreamOf(call) ==
  IF call.kind = "encode"
  THEN CompressionStream(TextEncode(JSONstringify(toMinified(call.arg))))
  ELSE DecompressionStream(base64ToUint8Array(call.arg.rest))

\* the call got as far as consumeStream and its stream does not fail
Drains(call) ==
  /\ call.pc # "idle"
  /\ call.streamOk
  /\ IF call.kind = "encode" THEN ~IsThrow(toMinified(call.arg))
     ELSE ~IsThrow(base64ToUint8Array(call.arg.rest))

\* encode resolved to a string, decode to a QuizSet or null
ResolvedAsTyped(call) ==
  /\ call.pc = "done"
  /\ call.result.state = "fulfilled"
  /\ IF call.kind = "encode" THEN "prefix" \in DOMAIN call.result.value
     ELSE call.result.value = JsNull \/ IsObject(call.result.value)

\* the chunks pushed so far, followed by those still to arrive, are the
\* chunks of the stream in arrival order
ChunksInOrder ==
  \A c \in DOMAIN calls :
    Drains(calls[c]) =>
      chunkStore[c] \o (IF calls[c].pc = "read" THEN calls[c].reader ELSE <<>>)
        = StreamOf(calls[c]).chunks

\* C26: every call of encode eventually resolves to a string and every call
\* of decode to a QuizSet or null, and the draining loop collects every
\* chunk of its stream in arrival order, a stream of zero chunks included.
C26_EveryCallCompletes ==
  /\ \A c \in CallIds : (calls[c].pc = "read") ~> ResolvedAsTyped(calls[c])
  /\ [](\A c \in DOMAIN calls : calls[c].pc = "done" => ResolvedAsTyped(calls[c]))
  /\ []ChunksInOrder

(***************************************************************************)
(* Imports against concurrent changes of the library.                      *)
(***************************************************************************)
\* C27: when an import completes successfully, the library afterwards is
\* the decoded quiz followed by every quiz that was in the library at the
\* moment of completion: what was saved, imported or deleted while the
\* decode was in flight is still reflected.
C27_ImportKeepsConcurrentChanges ==
  [][\A o \in Origins :
       (performImportResume(o) /\ dialog'.title = "Success")
       => quizzes' = <<inFlight[o].decoded>> \o quizzes]_vars

(***************************************************************************)
(* The round trip applied twice, and what it preserves.                    *)
(***************************************************************************)
\* encode succeeded and its key was decoded to a quiz
RoundTripResult ==
  /\ RoundTripDone
  /\ decResult.state = "fulfilled"
  /\ decResult.value # JsNull

PositionalIds(q) ==
  \A j \in 1..Len(q.options.arr) : q.options.arr[j].id = NumberToString(j)

\* C28: for every quiz q that encode accepts, r = decode(encode(q)) is a
\* fixed point of the round trip, and in r every choice question with a
\* non-empty options sequence has the option ids "1".."n" in order and only
\* correctAnswers values among those ids.
C28_RoundTripIdempotent ==
  RoundTripDone =>
    /\ RoundTripResult
    /\ decodeAlone(encodeAlone(decResult.value, TRUE).value) = Fulfilled(decResult.value)
    /\ \A q \in Range(QuestionsOf(decResult.value)) :
         (isChoiceType(q.type) /\ Has(q, "options") /\ Len(q.options.arr) > 0) =>
           /\ PositionalIds(q)
           /\ \A a \in Range(q.correctAnswers.arr) : a.str \in OptionIdsOf(q)

\* the round trip of a choice question whose option ids are not positional
\* and one of whose answers names no option
C28_Witness ==
  /\ RoundTripResult
  /\ \E q \in Range(QuestionsOf(quiz)) :
       /\ isChoiceType(q.type) /\ Has(q, "options") /\ Len(q.options.arr) = MaxOptions
       /\ ~PositionalIds(q)
       /\ \E a \in Range(q.correctAnswers.arr) : a.str \notin OptionIdsOf(q)
       /\ \E a \in Range(q.correctAnswers.arr) : a.str \in OptionIdsOf(q)

QuizFields == {"id", "title", "description", "createdAt", "questions"}
QuestionFields ==
  {"id", "type", "text", "points", "options", "correctAnswers",
   "subjectiveReference", "explanation"}
OptionFields == {"id", "text"}

\* obj and res agree on field f: both lack it or both have the same value
SameField(obj, res, f) ==
  /\ Has(obj, f) <=> Has(res, f)
  /\ Has(obj, f) => obj[f] = res[f]

OptionTexts(q) == [j \in 1..Len(q.options.arr) |-> q.options.arr[j].text]

\* C29: for every quiz with a questions sequence, decode(encode(q)) has the
\* id, title, description and createdAt of q, as many questions in the same
\* order, for each question the same id, type, text and points and the same
\* option texts in the same order, and no field outside the schema.
C29_IdentityPreserved ==
  RoundTripDone =>
    /\ RoundTripResult
    /\ LET r == decResult.value
       IN /\ \A f \in {"id", "title", "description", "createdAt"} : SameField(quiz, r, f)
          /\ DOMAIN r \subseteq QuizFields
          /\ Len(QuestionsOf(r)) = Len(QuestionsOf(quiz))
          /\ \A i \in 1..Len(QuestionsOf(quiz)) :
               LET q == QuestionsOf(quiz)[i]
                   d == QuestionsOf(r)[i]
               IN /\ \A f \in {"id", "type", "text", "points"} : SameField(q, d, f)
                  /\ DOMAIN d \subseteq QuestionFields
                  /\ Has(q, "options") <=> Has(d, "options")
                  /\ Has(q, "options") =>
                       /\ OptionTexts(d) = OptionTexts(q)
                       /\ \A o \in Range(d.options.arr) : DOMAIN o \subseteq OptionFields

\* the round trip of a quiz and a question that carry unknown fields
C29_Witness ==
  /\ RoundTripResult
  /\ ~(DOMAIN quiz \subseteq QuizFields)
  /\ \E q \in Range(QuestionsOf(quiz)) :
       ~(DOMAIN q \subseteq QuestionFields) /\ Len(q.options.arr) = MaxOptions

(***************************************************************************)
(* Grading of MULTIPLE_CHOICE and SUBJECTIVE questions.                    *)
(***************************************************************************)
\* the option ids the user has selected
SelectedIds(userAns) == IF IsArray(userAns) THEN Range(userAns.arr) ELSE {}

\* grades.reduce((acc, g) => acc + g.score, 0)
RECURSIVE totalScore(_)
totalScore(list) == IF list = <<>> THEN 0 ELSE Head(list).score + totalScore(Tail(list))

\* quiz.questions.reduce((acc, q) => q.type !== SUBJECTIVE ? acc + q.points : acc, 0)
RECURSIVE maxScore(_)
maxScore(list) ==
  IF list = <<>> THEN 0
  ELSE (IF Head(list).type # "SUBJECTIVE" THEN Head(list).points ELSE 0)
       + maxScore(Tail(list))

\* C30: a MULTIPLE_CHOICE question is graded correct, and scores its
\* points, exactly when the set of selected option ids equals the set of
\* ids in correctAnswers, whatever the order of selection and whatever ids
\* correctAnswers repeats; otherwise it scores 0; a SUBJECTIVE question
\* scores 0; the total never exceeds the points of the non-subjective
\* questions.
C30_MultipleChoiceSetEquality ==
  isSubmitted =>
    /\ \A i \in 1..Len(takerQuiz.questions) :
         LET q == takerQuiz.questions[i]
             userAns == answers[q.id]
         IN /\ q.type = "MULTIPLE_CHOICE" =>
                 /\ grades[i].isCorrect <=> SelectedIds(userAns) = Range(q.correctAnswers)
                 /\ grades[i].score = IF grades[i].isCorrect THEN q.points ELSE 0
            /\ q.type = "SUBJECTIVE" => grades[i].score = 0
    /\ totalScore(grades) <= maxScore(takerQuiz.questions)
====
